---------------------------- MODULE Spec2Model ----------------------------
(***************************************************************************)
(* A model of slurmjobs/util.py: parameter-grid expansion, job naming,     *)
(* argument formatting and dict_merge.                                     *)
(*                                                                         *)
(* Every function of the module is driven the same way: Init draws the     *)
(* arguments of one call (call), the actions run the function's code and   *)
(* leave what it returned or raised in ret.  Python strings are sequences  *)
(* of one-character strings, so that formatting, sorting and filtering are *)
(* computed, not assumed.  Python objects that can be aliased (the dicts   *)
(* dict_merge reads and writes) live in heap.                              *)
(***************************************************************************)
EXTENDS Integers, Sequences, FiniteSets, TLC

VARIABLES
    pc,       \* the position of the running call
    call,     \* the arguments of the call
    heap,     \* the dict objects dict_merge works on, by address
    locals,   \* the local variables of the running call
    ret       \* what the call returned (or yielded so far), or raised

vars == <<pc, call, heap, locals, ret>>

NoHeap == <<>>
NoLocals == [none |-> TRUE]
NoRet == [exc |-> "none"]

SeqsUpTo(S, n) == UNION {[1..m -> S] : m \in 0..n}

\* The sequences over S of length at most n that repeat no element.
DistinctSeqsUpTo(S, n) ==
    {q \in SeqsUpTo(S, n) : \A i, j \in 1..Len(q) : i # j => q[i] # q[j]}

Min(a, b) == IF a < b THEN a ELSE b

(***************************************************************************)
(* Strings, str.format                                                     *)
(***************************************************************************)

\* The characters of the model in code point order: what sorted() compares.
\* The model's names and templates hold no ':', '.', '[': format specs and
\* attribute or index lookups in replacement fields are outside the model.
Chars ==
    <<" ", "!", "\"", "'", "(", ")", ",", "-", ".", "/",
      "0", "1", "2", "3", "4", "5", "6", "7", "8", "9", "=",
      "A", "B", "C", "D", "E", "F", "G", "H", "I", "J", "K", "L", "M",
      "N", "O", "P", "Q", "R", "S", "T", "U", "V", "W", "X", "Y", "Z", "_",
      "a", "b", "c", "d", "e", "f", "g", "h", "i", "j", "k", "l", "m",
      "n", "o", "p", "q", "r", "s", "t", "u", "v", "w", "x", "y", "z", "{", "}">>
Ord(c) == CHOOSE i \in 1..Len(Chars) : Chars[i] = c
Digits == {Chars[i] : i \in Ord("0")..Ord("9")}
UpperLetters == {Chars[i] : i \in Ord("A")..Ord("Z")}
LowerLetters == {Chars[i] : i \in Ord("a")..Ord("z")}

\* str.isalnum() of one character
IsAlnum(c) == c \in Digits \cup UpperLetters \cup LowerLetters

\* str.lower()
LowerChar(c) == IF c \in UpperLetters THEN Chars[Ord(c) - Ord("A") + Ord("a")] ELSE c
Lower(s) == [i \in 1..Len(s) |-> LowerChar(s[i])]

\* sep.join(parts)
RECURSIVE Join(_, _)
Join(sep, parts) ==
    IF parts = <<>> THEN <<>>
    ELSE IF Len(parts) = 1 THEN parts[1]
    ELSE parts[1] \o sep \o Join(sep, Tail(parts))

\* s.replace(c, by) for a single character c
RECURSIVE Replace(_, _, _)
Replace(s, c, by) ==
    IF s = <<>> THEN <<>>
    ELSE (IF Head(s) = c THEN by ELSE <<Head(s)>>) \o Replace(Tail(s), c, by)

\* A Python value with the text str() gives it.  A str of the model holds no
\* quote, backslash or control character.
StrVal(s) == [type |-> "str", text |-> s]
IntVal(s) == [type |-> "int", text |-> s]
BoolVal(b) == [type |-> "bool", text |-> IF b THEN <<"T", "r", "u", "e">> ELSE <<"F", "a", "l", "s", "e">>]

\* repr(v)
Repr(v) == IF v.type = "str" THEN <<"'">> \o v.text \o <<"'">> ELSE v.text

Raised(e) == [exc |-> e]
Ok(s) == [exc |-> "none", s |-> s]

\* The first position from j on that holds a character of S, or 0.
FirstOf(tpl, j, S) ==
    IF \E p \in j..Len(tpl) : tpl[p] \in S
    THEN CHOOSE p \in j..Len(tpl) : tpl[p] \in S /\ \A q \in j..(p - 1) : tpl[q] \notin S
    ELSE 0

IsDigits(s) == s # <<>> /\ \A i \in 1..Len(s) : s[i] \in Digits
RECURSIVE ToInt(_)
ToInt(s) == IF s = <<>> THEN 0 ELSE 10 * ToInt(SubSeq(s, 1, Len(s) - 1)) + (Ord(s[Len(s)]) - Ord("0"))

\* A replacement field parsed from position j, just after its '{': the field
\* name runs to the first '}' or '!'; after '!' come one conversion character
\* and the closing '}'.
ParseField(tpl, j) ==
    LET p == FirstOf(tpl, j, {"{", "}", "!"}) IN
    IF p = 0 THEN Raised("ValueError")
    ELSE IF tpl[p] = "{" THEN Raised("ValueError")
    ELSE IF tpl[p] = "}"
         THEN [exc |-> "none", name |-> SubSeq(tpl, j, p - 1), conv |-> "", next |-> p + 1]
    ELSE IF p + 2 > Len(tpl) THEN Raised("ValueError")
    ELSE IF tpl[p + 2] # "}" THEN Raised("ValueError")
    ELSE [exc |-> "none", name |-> SubSeq(tpl, j, p - 1), conv |-> tpl[p + 1], next |-> p + 3]

AutoInit == -1
AutoManual == -2

\* The object a field name denotes and the numbering state after it: an empty
\* name takes the next positional argument, digits index args, anything else
\* is a key of kwargs.  auto is AutoInit, AutoManual or the next automatic
\* index.
GetField(name, auto, args, kwargs) ==
    IF name = <<>>
    THEN IF auto = AutoManual THEN Raised("ValueError")
         ELSE LET n == IF auto = AutoInit THEN 0 ELSE auto IN
              IF n >= Len(args) THEN Raised("IndexError")
              ELSE [exc |-> "none", obj |-> args[n + 1], auto |-> n + 1]
    ELSE IF IsDigits(name)
    THEN IF auto >= 0 THEN Raised("ValueError")
         ELSE IF ToInt(name) >= Len(args) THEN Raised("IndexError")
         ELSE [exc |-> "none", obj |-> args[ToInt(name) + 1], auto |-> AutoManual]
    ELSE IF name \notin DOMAIN kwargs THEN Raised("KeyError")
         ELSE [exc |-> "none", obj |-> kwargs[name], auto |-> auto]

\* The conversion !r, !s or !a applied, then format(obj, '').
Convert(obj, conv) ==
    IF conv \in {"", "s"} THEN Ok(obj.text)
    ELSE IF conv \in {"r", "a"} THEN Ok(Repr(obj))
    ELSE Raised("ValueError")

\* tpl.format(*args, **kwargs) from position i on, out being the text so far.
RECURSIVE FormatFrom(_, _, _, _, _, _)
FormatFrom(tpl, i, auto, out, args, kwargs) ==
    IF i > Len(tpl) THEN Ok(out)
    ELSE IF tpl[i] \notin {"{", "}"}
         THEN FormatFrom(tpl, i + 1, auto, Append(out, tpl[i]), args, kwargs)
    ELSE IF i = Len(tpl) THEN Raised("ValueError")
    ELSE IF tpl[i + 1] = tpl[i]
         THEN FormatFrom(tpl, i + 2, auto, Append(out, tpl[i]), args, kwargs)
    ELSE IF tpl[i] = "}" THEN Raised("ValueError")
    ELSE LET f == ParseField(tpl, i + 1) IN
         IF f.exc # "none" THEN Raised(f.exc)
         ELSE LET g == GetField(f.name, auto, args, kwargs) IN
              IF g.exc # "none" THEN Raised(g.exc)
              ELSE LET c == Convert(g.obj, f.conv) IN
                   IF c.exc # "none" THEN Raised(c.exc)
                   ELSE FormatFrom(tpl, f.next, g.auto, out \o c.s, args, kwargs)

Format(tpl, args, kwargs) == FormatFrom(tpl, 1, AutoInit, <<>>, args, kwargs)

NoKwargs == [k \in {} |-> StrVal(<<>>)]

(***************************************************************************)
(* get_job_name, make_job_name_tpl, format_value_for_name                  *)
(***************************************************************************)

NoneVal == [type |-> "NoneType", text |-> <<"N", "o", "n", "e">>]
ListVal(items) == [type |-> "list", items |-> items]
DictVal(items) == [type |-> "dict", items |-> items]

\* A (key, value) item of a mapping; a mapping holds its items in iteration
\* (insertion) order and no key twice.
Pair(k, v) == [key |-> k, value |-> v]
Mappings(K, V, n) ==
    {q \in SeqsUpTo({Pair(k, v) : k \in K, v \in V}, n) :
        \A i, j \in 1..Len(q) : i # j => q[i].key # q[j].key}

\* ','.join(x): every item must be a str.
JoinStrs(sep, items) ==
    IF \E i \in 1..Len(items) : items[i].type # "str" THEN Raised("TypeError")
    ELSE Ok(Join(sep, [i \in 1..Len(items) |-> items[i].text]))

\* format_value_for_name(x).  Line 34 calls dict.items() on the type dict, not
\* on x: it raises TypeError for every dict.
format_value_for_name(x) ==
    IF x.type = "dict" THEN Raised("TypeError")
    ELSE IF x.type = "list"
         THEN LET j == JoinStrs(<<",">>, x.items) IN
              IF j.exc # "none" THEN j
              ELSE [exc |-> "none", v |-> StrVal(<<"(">> \o j.s \o <<")">>)]
    ELSE [exc |-> "none", v |-> x]

\* {k: format_value_for_name(v) for k, v in params.items()}
RECURSIVE FormatValues(_, _, _)
FormatValues(params, i, out) ==
    IF i > Len(params) THEN [exc |-> "none", items |-> out]
    ELSE LET f == format_value_for_name(params[i].value) IN
         IF f.exc # "none" THEN Raised(f.exc)
         ELSE FormatValues(params, i + 1, Append(out, Pair(params[i].key, f.v)))

\* a < b for two str
RECURSIVE StrLess(_, _)
StrLess(a, b) ==
    IF b = <<>> THEN FALSE
    ELSE IF a = <<>> THEN TRUE
    ELSE IF Head(a) # Head(b) THEN Ord(Head(a)) < Ord(Head(b))
    ELSE StrLess(Tail(a), Tail(b))

\* A slip: the items left in the mapping's iteration order.
Unsorted(items) == items

\* sorted(params.items()): the keys are distinct, so the keys alone decide.
RECURSIVE SortedItems(_)
SortedItems(items) ==
    IF items = <<>> THEN <<>>
    ELSE LET m == CHOOSE i \in 1..Len(items) :
                    \A j \in 1..Len(items) : j = i \/ StrLess(items[i].key, items[j].key)
         IN <<items[m]>>
            \o SortedItems([j \in 1..(Len(items) - 1) |-> IF j < m THEN items[j] ELSE items[j + 1]])

\* make_job_name_tpl(names): ','.join(f'{n}-{{{n}}}' for n in names)
make_job_name_tpl(names) ==
    Join(<<",">>, [i \in 1..Len(names) |-> names[i] \o <<"-", "{">> \o names[i] \o <<"}">>])

Truthy(v) == v.type # "NoneType" /\ v.text # <<>>

\* Lines 20 to 23 of get_job_name: job_name before it is filtered.
JobNameUnfiltered(name, params, job_name_tpl) ==
    LET f == FormatValues(params, 1, <<>>) IN
    IF f.exc # "none" THEN Raised(f.exc)
    ELSE IF f.items = <<>> THEN Raised("ValueError")
    ELSE LET sorted == SortedItems(f.items)
             param_names == [i \in 1..Len(sorted) |-> sorted[i].key]
             param_vals == [i \in 1..Len(sorted) |-> sorted[i].value]
             kwargs == [k \in {f.items[i].key : i \in 1..Len(f.items)} |->
                         (CHOOSE i \in 1..Len(f.items) : f.items[i].key = k)]
             tpl == IF Truthy(job_name_tpl) THEN job_name_tpl.text
                    ELSE make_job_name_tpl(param_names)
             r == Format(tpl, param_vals,
                         [k \in DOMAIN kwargs |-> f.items[kwargs[k]].value])
         IN IF r.exc # "none" THEN Raised(r.exc)
            ELSE Ok(name \o <<",">> \o r.s)

\* A slip: nothing filtered out.
KeepAll(x, allowed) == TRUE

\* x.isalnum() or x in allowed
Keep(x, allowed) == IsAlnum(x) \/ \E i \in 1..Len(allowed) : allowed[i] = x

\* ''.join(x for x in job_name if (x.isalnum() or x in allowed))
RECURSIVE Filtered(_, _)
Filtered(job_name, allowed) ==
    IF job_name = <<>> THEN <<>>
    ELSE (IF Keep(Head(job_name), allowed) THEN <<Head(job_name)>> ELSE <<>>)
         \o Filtered(Tail(job_name), allowed)

get_job_name(name, params, job_name_tpl, allowed) ==
    LET r == JobNameUnfiltered(name, params, job_name_tpl) IN
    IF r.exc # "none" THEN r ELSE Ok(Filtered(r.s, allowed))

MaxParams == 2

DefaultAllowed == <<",", ".", "_", "-">>
BaseNames == {<<"r", "u", "n">>, <<"m", " ", "/">>}
JobParamNames == {<<"a">>, <<"b">>, <<"1">>, <<"a", "/">>, <<"!", "s">>}
ParamScalars == {IntVal(<<"2">>), StrVal(<<"v", " ", "/", "!">>)}
ParamValues ==
    ParamScalars
    \cup {ListVal(<<StrVal(<<"x">>), StrVal(<<"y", ".">>)>>), DictVal(<<Pair(<<"x">>, IntVal(<<"1">>))>>)}
Templates == {NoneVal, StrVal(<<"{", "0", "}", "_", "{", "a", "}">>), StrVal(<<"{", "}", "/", "{", "!", "r", "}">>)}
AllowedSets == {DefaultAllowed, <<>>}

InitName ==
    \E name \in BaseNames, params \in Mappings(JobParamNames, ParamValues, MaxParams),
       tpl \in Templates, allowed \in AllowedSets :
        /\ pc = "start"
        /\ call = [fn |-> "get_job_name", name |-> name, params |-> params,
                   job_name_tpl |-> tpl, allowed |-> allowed]
        /\ heap = NoHeap
        /\ locals = NoLocals
        /\ ret = NoRet

\* Lines 20 to 23: the values formatted, the items sorted, the template filled.
NameFormat ==
    /\ pc = "start"
    /\ call.fn = "get_job_name"
    /\ LET r == JobNameUnfiltered(call.name, call.params, call.job_name_tpl) IN
        IF r.exc # "none"
        THEN pc' = "raised" /\ ret' = r /\ UNCHANGED locals
        ELSE pc' = "filter" /\ locals' = [job_name |-> r.s] /\ UNCHANGED ret
    /\ UNCHANGED <<call, heap>>

\* Lines 24 and 25: the characters filtered, the name returned.
NameFilter ==
    /\ pc = "filter"
    /\ ret' = Ok(Filtered(locals.job_name, call.allowed))
    /\ pc' = "done"
    /\ UNCHANGED <<call, heap, locals>>

NextName == NameFormat \/ NameFilter

SpecName == InitName /\ [][NextName]_vars

(***************************************************************************)
(* get_job_name: the properties                                            *)
(***************************************************************************)

IsNameCall == call.fn = "get_job_name"
AllScalars == \A i \in 1..Len(call.params) : call.params[i].value \in ParamScalars
Orderings(n) == {f \in [1..n -> 1..n] : \A i, j \in 1..n : i # j => f[i] # f[j]}

\* C2: with scalar values, the call ends as it does for every mapping that
\* holds the same items in another iteration order: the same job name, for
\* every base name, template and allowed set.
C2_OrderIndependent ==
    (IsNameCall /\ pc \in {"done", "raised"} /\ AllScalars) =>
        \A f \in Orderings(Len(call.params)) :
            get_job_name(call.name, [i \in 1..Len(call.params) |-> call.params[f[i]]],
                         call.job_name_tpl, call.allowed) = ret

\* A name was returned for two scalar items given out of key order.
C2_Witness ==
    /\ IsNameCall /\ pc = "done" /\ AllScalars
    /\ Len(call.params) = 2
    /\ StrLess(call.params[2].key, call.params[1].key)
    /\ call.params[1].value # call.params[2].value

\* s is t with some characters left out, the others in their order.
RECURSIVE IsSubsequence(_, _)
IsSubsequence(s, t) ==
    IF s = <<>> THEN TRUE
    ELSE IF t = <<>> THEN FALSE
    ELSE IF Head(s) = Head(t) THEN IsSubsequence(Tail(s), Tail(t))
    ELSE IsSubsequence(s, Tail(t))

\* C3: with the default allowed set, every character of the returned name is
\* a letter, a digit or one of ',', '.', '_', '-', and the name is the
\* unfiltered name with characters left out, the others in their order.
C3_OnlyAllowedCharacters ==
    (IsNameCall /\ pc = "done" /\ call.allowed = DefaultAllowed) =>
        /\ \A i \in 1..Len(ret.s) :
            ret.s[i] \in Digits \cup UpperLetters \cup LowerLetters \cup {",", ".", "_", "-"}
        /\ IsSubsequence(ret.s, locals.job_name)

\* A name was returned whose base name, parameter name and value each held a
\* character that is not allowed.
C3_Witness ==
    /\ IsNameCall /\ pc = "done" /\ call.allowed = DefaultAllowed
    /\ \E i \in 1..Len(call.name) : call.name[i] = " "
    /\ \E i \in 1..Len(call.params) :
        /\ call.params[i].key = <<"a", "/">>
        /\ call.params[i].value = StrVal(<<"v", " ", "/", "!">>)
    /\ call.job_name_tpl = NoneVal
    /\ Len(ret.s) < Len(locals.job_name)

(***************************************************************************)
(* Argument, FireArgument, SacredArgument, JsonArgument                    *)
(***************************************************************************)

Classes == {"Argument", "FireArgument", "SacredArgument", "JsonArgument"}

\* cls.__name__
ClassName(cls) ==
    CASE cls = "Argument" -> <<"A", "r", "g", "u", "m", "e", "n", "t">>
      [] cls = "FireArgument" -> <<"F", "i", "r", "e", "A", "r", "g", "u", "m", "e", "n", "t">>
      [] cls = "SacredArgument" -> <<"S", "a", "c", "r", "e", "d", "A", "r", "g", "u", "m", "e", "n", "t">>
      [] cls = "JsonArgument" -> <<"J", "s", "o", "n", "A", "r", "g", "u", "m", "e", "n", "t">>

\* The base of a class, and the attributes its own body sets.
Base(cls) == IF cls = "Argument" THEN "object" ELSE "Argument"
OwnAttrs(cls) ==
    CASE cls = "Argument" ->
            [prefix |-> <<>>, suffix |-> <<>>, arg_fmt |-> <<"{", "a", "r", "g", "}">>,
             kw_fmt |-> <<"-", "-", "{", "k", "e", "y", "}", "=", "{", "v", "a", "l", "u", "e", "}">>]
      [] cls = "FireArgument" -> [k \in {} |-> <<>>]
      [] cls = "SacredArgument" -> [prefix |-> <<"w", "i", "t", "h">>, kw_fmt |-> <<"{", "k", "e", "y", "}", "=", "{", "v", "a", "l", "u", "e", "}">>]
      [] cls = "JsonArgument" -> [k \in {} |-> <<>>]

\* cls.<attr>: the class's own attribute, else its base's.
RECURSIVE Attr(_, _)
Attr(cls, attr) ==
    IF attr \in DOMAIN OwnAttrs(cls) THEN OwnAttrs(cls)[attr] ELSE Attr(Base(cls), attr)

\* cls.__subclasses__(), in definition order
Subclasses(cls) ==
    IF cls = "Argument" THEN <<"FireArgument", "SacredArgument", "JsonArgument">> ELSE <<>>

\* key or ''
KeyOrEmpty(key) == IF key.type = "NoneType" \/ key.text = <<>> THEN StrVal(<<>>) ELSE key

\* {cls.__name__.lower(): c for c in cls.__subclasses__()}: every subclass is
\* stored under the lowered name of cls itself, each replacing the one before.
RECURSIVE Registry(_, _, _)
Registry(cls, cs, d) ==
    IF cs = <<>> THEN d
    ELSE Registry(cls, Tail(cs), (Lower(ClassName(cls)) :> Head(cs)) @@ d)

\* Argument.get(key), a classmethod: cls is the class it is called on.
Get(cls, key) ==
    LET registry == Registry(cls, Subclasses(cls), [k \in {} |-> cls])
        wanted == Lower(Format(<<"{", "}", "a", "r", "g", "u", "m", "e", "n", "t">>, <<KeyOrEmpty(key)>>, NoKwargs).s)
    IN IF wanted \in DOMAIN registry THEN registry[wanted] ELSE cls

\* json.dumps(v) of a str, an int or a bool
JsonDumps(v) ==
    IF v.type = "str" THEN <<"\"">> \o v.text \o <<"\"">>
    ELSE IF v.type = "bool" THEN Lower(v.text)
    ELSE v.text

\* shlex.quote(s)
ShlexSafe(c) == IsAlnum(c) \/ c \in {"_", "=", ",", ".", "/", "-"}
ShlexQuote(s) ==
    IF s = <<>> THEN <<"'", "'">>
    ELSE IF \A i \in 1..Len(s) : ShlexSafe(s[i]) THEN s
    ELSE <<"'">> \o Replace(s, "'", <<"'", "\"", "'", "\"", "'">>) \o <<"'">>

\* cls.format_value(v): JsonArgument overrides it.
FormatValue(cls, v) ==
    IF cls = "JsonArgument" THEN ShlexQuote(JsonDumps(v)) ELSE ShlexQuote(Repr(v))

\* A slip: the prefix emitted whether it is empty or not.
PrefixAlways(cls) == <<Attr(cls, "prefix")>>

\* [cls.prefix]*bool(cls.prefix), [cls.suffix]*bool(cls.suffix)
PrefixTokens(cls) == IF Attr(cls, "prefix") # <<>> THEN <<Attr(cls, "prefix")>> ELSE <<>>
SuffixTokens(cls) == IF Attr(cls, "suffix") # <<>> THEN <<Attr(cls, "suffix")>> ELSE <<>>

\* cls.build(*args, **kw); kw holds its (key, value) pairs in iteration order.
Build(cls, args, kw) ==
    LET s_args == [i \in 1..Len(args) |->
                    Format(Attr(cls, "arg_fmt"), <<>>,
                           <<"a", "r", "g">> :> StrVal(FormatValue(cls, args[i]))).s]
        s_kw == [i \in 1..Len(kw) |->
                    Format(Attr(cls, "kw_fmt"), <<>>,
                           (<<"k", "e", "y">> :> StrVal(kw[i].key))
                           @@ (<<"v", "a", "l", "u", "e">> :> StrVal(FormatValue(cls, kw[i].value)))).s]
    IN Join(<<" ">>, PrefixTokens(cls) \o s_args \o s_kw \o SuffixTokens(cls))

MaxArgs == 2
MaxKw == 2

ArgValues == {IntVal(<<"1">>), StrVal(<<"a", " ", "b">>), BoolVal(TRUE)}
KwNames == {<<"f", "l", "a", "g">>, <<"n">>, <<"l", "r">>}
GetKeys ==
    {NoneVal, StrVal(<<>>), StrVal(<<"f", "i", "r", "e">>), StrVal(<<"F", "I", "R", "E">>), StrVal(<<"S", "a", "c", "r", "e", "d">>),
     StrVal(<<"j", "s", "o", "n">>), StrVal(<<"J", "S", "O", "N">>), StrVal(<<"z", "z">>), StrVal(<<"a", "r", "g", "u", "m", "e", "n", "t">>)}

ArgCalls ==
    {[fn |-> "get", cls |-> c, key |-> k] : c \in Classes, k \in GetKeys}
    \cup {[fn |-> "build", cls |-> c, args |-> a, kw |-> k] :
            c \in Classes, a \in SeqsUpTo(ArgValues, MaxArgs),
            k \in Mappings(KwNames, ArgValues, MaxKw)}

InitArg ==
    /\ pc = "start"
    /\ call \in ArgCalls
    /\ heap = NoHeap
    /\ locals = NoLocals
    /\ ret = NoRet

CallGet ==
    /\ pc = "start"
    /\ call.fn = "get"
    /\ ret' = [exc |-> "none", cls |-> Get(call.cls, call.key)]
    /\ pc' = "done"
    /\ UNCHANGED <<call, heap, locals>>

CallBuild ==
    /\ pc = "start"
    /\ call.fn = "build"
    /\ ret' = Ok(Build(call.cls, call.args, call.kw))
    /\ pc' = "done"
    /\ UNCHANGED <<call, heap, locals>>

NextArg == CallGet \/ CallBuild

SpecArg == InitArg /\ [][NextArg]_vars

(***************************************************************************)
(* Argument: the properties                                                *)
(***************************************************************************)

\* The class a variant name stands for, compared case-insensitively.
ClassOfVariant(key) ==
    LET name == Lower(KeyOrEmpty(key).text) IN
    IF name = <<"f", "i", "r", "e">> THEN "FireArgument"
    ELSE IF name = <<"s", "a", "c", "r", "e", "d">> THEN "SacredArgument"
    ELSE IF name = <<"j", "s", "o", "n">> THEN "JsonArgument"
    ELSE "Argument"

\* C4: Argument.get(key) returns FireArgument for 'fire', SacredArgument for
\* 'sacred', JsonArgument for 'json' in any letter case, and Argument for
\* None, the empty string and every other name.
C4_GetSelectsByName ==
    (pc = "done" /\ call.fn = "get" /\ call.cls = "Argument") =>
        ret.cls = ClassOfVariant(call.key)

\* The token of one keyword as the variants' table gives it.
KwToken(cls, kv) ==
    (IF cls = "SacredArgument" THEN <<>> ELSE <<"-", "-">>)
    \o kv.key \o <<"=">> \o FormatValue(cls, kv.value)

\* C5: build returns, joined by single spaces: 'with' for the Sacred variant
\* and nothing for the others, then one token per positional value in call
\* order, then one token per keyword in the combo's iteration order
\* ('key=value' for Sacred, '--key=value' for the others); no empty token
\* stands for the absent prefix or suffix.
C5_BuildAssemblyOrder ==
    (pc = "done" /\ call.fn = "build") =>
        ret.s = Join(<<" ">>,
                    (IF call.cls = "SacredArgument" THEN <<<<"w", "i", "t", "h">>>> ELSE <<>>)
                    \o [i \in 1..Len(call.args) |-> FormatValue(call.cls, call.args[i])]
                    \o [i \in 1..Len(call.kw) |-> KwToken(call.cls, call.kw[i])])

\* A Sacred build and a Default build, each of two positional values and two
\* keywords, have returned.
C5_Witness ==
    /\ pc = "done" /\ call.fn = "build"
    /\ call.cls \in {"SacredArgument", "Argument"}
    /\ Len(call.args) = 2 /\ Len(call.kw) = 2
    /\ call.args[1] # call.args[2]
    /\ ret.s[1] \in {"w", "1", "T", "'"}

(***************************************************************************)
(* expand_param_grid, expand_paired_params                                 *)
(***************************************************************************)

\* An axis of a parameter spec, (key, values): the key is a name or a tuple
\* of names (isinstance(n, tuple) tells them apart).
PlainAxis(n, vs) == [tuple |-> FALSE, n |-> n, values |-> vs]
PairedAxis(ns, vs) == [tuple |-> TRUE, ns |-> ns, tuples |-> vs]

MaxAxes == 2

PlainNames == {"a", "b"}
PlainValues == {1, 2}
PairedKeys == {<<"b", "c">>, <<"c">>}
PairedValues == {<<1, 3>>, <<2, 5>>, <<4>>}
MaxValues == 2
Axes ==
    {PlainAxis(n, vs) : n \in PlainNames, vs \in DistinctSeqsUpTo(PlainValues, MaxValues)}
    \cup {PairedAxis(ns, vs) : ns \in PairedKeys, vs \in DistinctSeqsUpTo(PairedValues, MaxValues)}

EmptyCombo == [k \in {} |-> 0]

\* param_names, param_grid = zip(*params)
ParamNames(params) ==
    [i \in 1..Len(params) |->
        IF params[i].tuple THEN [tuple |-> TRUE, ns |-> params[i].ns]
        ELSE [tuple |-> FALSE, n |-> params[i].n]]
ParamGrid(params) ==
    [i \in 1..Len(params) |->
        IF params[i].tuple THEN params[i].tuples ELSE params[i].values]

\* [x + [y] for x in result for y in pool]
RECURSIVE Extend(_, _)
Extend(result, pool) ==
    IF result = <<>> THEN <<>>
    ELSE [j \in 1..Len(pool) |-> Append(Head(result), pool[j])] \o Extend(Tail(result), pool)

\* A slip: the leftmost axis varying fastest.
RECURSIVE ExtendLeftFastest(_, _)
ExtendLeftFastest(result, pool) ==
    IF pool = <<>> THEN <<>>
    ELSE [j \in 1..Len(result) |-> Append(result[j], Head(pool))]
         \o ExtendLeftFastest(result, Tail(pool))

\* One round of itertools.product: every tuple so far, extended by every value
\* of the next pool.
ProductStep(result, pool) == Extend(result, pool)

\* itertools.product(*param_grid), as its documentation defines it:
\* result = [[]]; for pool in pools: result = [x + [y] for x in result for y in pool]
RECURSIVE ProductFrom(_, _, _)
ProductFrom(result, pools, i) ==
    IF i > Len(pools) THEN result
    ELSE ProductFrom(ProductStep(result, pools[i]), pools, i + 1)
Product(pools) == ProductFrom(<< <<>> >>, pools, 1)

\* for ni, vi in zip(n, v): ps[ni] = vi   (zip stops at the shorter of the two)
RECURSIVE AssignPaired(_, _, _, _)
AssignPaired(ps, n, v, i) ==
    IF i > Min(Len(n), Len(v)) THEN ps
    ELSE AssignPaired((n[i] :> v[i]) @@ ps, n, v, i + 1)

\* expand_paired_params(zip(names, values)): the loop `for n, v in params`
\* from the i-th pair on.
RECURSIVE ExpandFrom(_, _, _, _)
ExpandFrom(ps, names, values, i) ==
    IF i > Min(Len(names), Len(values)) THEN ps
    ELSE IF names[i].tuple
         THEN ExpandFrom(AssignPaired(ps, names[i].ns, values[i], 1), names, values, i + 1)
         ELSE ExpandFrom((names[i].n :> values[i]) @@ ps, names, values, i + 1)
expand_paired_params(names, values) == ExpandFrom(EmptyCombo, names, values, 1)

InitGrid ==
    \E params \in SeqsUpTo(Axes, MaxAxes) :
        /\ pc = "start"
        /\ call = [fn |-> "expand_param_grid", params |-> params]
        /\ heap = NoHeap
        /\ locals = NoLocals
        /\ ret = [exc |-> "none", yielded |-> <<>>]

\* next() on the generator, not yet started: zip(*params) of an empty spec
\* yields nothing to unpack into param_names, param_grid.
GridUnpackRaises ==
    /\ pc = "start"
    /\ call.fn = "expand_param_grid"
    /\ call.params = <<>>
    /\ pc' = "raised"
    /\ ret' = [exc |-> "ValueError", yielded |-> <<>>]
    /\ UNCHANGED <<call, heap, locals>>

\* next() on the generator: the next tuple of the product is flattened and
\* yielded.
GridYield ==
    /\ pc \in {"start", "suspended"}
    /\ call.fn = "expand_param_grid"
    /\ call.params # <<>>
    /\ LET product == Product(ParamGrid(call.params))
           i == Len(ret.yielded) + 1
       IN /\ i <= Len(product)
          /\ ret' = [ret EXCEPT !.yielded =
                        Append(@, expand_paired_params(ParamNames(call.params), product[i]))]
    /\ pc' = "suspended"
    /\ UNCHANGED <<call, heap, locals>>

\* next() on the generator with the product used up: StopIteration.
GridExhausted ==
    /\ pc \in {"start", "suspended"}
    /\ call.fn = "expand_param_grid"
    /\ call.params # <<>>
    /\ Len(ret.yielded) = Len(Product(ParamGrid(call.params)))
    /\ pc' = "done"
    /\ UNCHANGED <<call, heap, locals, ret>>

NextGrid == GridUnpackRaises \/ GridYield \/ GridExhausted

SpecGrid == InitGrid /\ [][NextGrid]_vars

(***************************************************************************)
(* expand_param_grid: the properties                                       *)
(***************************************************************************)

IsGridCall == call.fn = "expand_param_grid"
NAxes == Len(call.params)
AxisValues(j) == IF call.params[j].tuple THEN call.params[j].tuples ELSE call.params[j].values
AxisLen(j) == Len(AxisValues(j))

\* The names an axis contributes, and the names of the whole spec.
AxisNames(j) ==
    IF call.params[j].tuple
    THEN {call.params[j].ns[p] : p \in 1..Len(call.params[j].ns)}
    ELSE {call.params[j].n}
FlatNames == UNION {AxisNames(j) : j \in 1..NAxes}

ArityMatches ==
    \A j \in 1..NAxes : call.params[j].tuple =>
        \A m \in 1..AxisLen(j) : Len(call.params[j].tuples[m]) = Len(call.params[j].ns)
NamesUnique ==
    /\ \A j, m \in 1..NAxes : j # m => AxisNames(j) \cap AxisNames(m) = {}
    /\ \A j \in 1..NAxes : call.params[j].tuple =>
        \A p, q \in 1..Len(call.params[j].ns) : p # q => call.params[j].ns[p] # call.params[j].ns[q]

RECURSIVE ProductOfLens(_)
ProductOfLens(j) == IF j > NAxes THEN 1 ELSE AxisLen(j) * ProductOfLens(j + 1)

\* The value axis j takes at the i-th grid point (i from 1) when the rightmost
\* axis varies fastest.
ValueAt(i, j) == AxisValues(j)[(((i - 1) \div ProductOfLens(j + 1)) % AxisLen(j)) + 1]

\* The flattening of the i-th grid point: each name with the value of its axis,
\* or with the value at its position in the tuple of its paired axis.
FlattenedPoint(i) ==
    [name \in FlatNames |->
        LET j == CHOOSE m \in 1..NAxes : name \in AxisNames(m) IN
        IF call.params[j].tuple
        THEN ValueAt(i, j)[CHOOSE p \in 1..Len(call.params[j].ns) : call.params[j].ns[p] = name]
        ELSE ValueAt(i, j)]

\* C1: for a non-empty spec with matching arities and unique names, the
\* combos yielded are the flattened tuples of the cartesian product of the
\* axes' values, in axis order with the rightmost axis varying fastest, and
\* a generator run to its end has yielded all of them.
C1_ProductInOrderFlattened ==
    (IsGridCall /\ NAxes > 0 /\ ArityMatches /\ NamesUnique) =>
        /\ pc # "raised"
        /\ Len(ret.yielded) <= ProductOfLens(1)
        /\ pc = "done" => Len(ret.yielded) = ProductOfLens(1)
        /\ \A i \in 1..Len(ret.yielded) : ret.yielded[i] = FlattenedPoint(i)

\* A plain axis and a paired axis of two values each, expanded to the end.
C1_Witness ==
    /\ IsGridCall /\ pc = "done"
    /\ NAxes = 2 /\ ArityMatches /\ NamesUnique
    /\ ~call.params[1].tuple /\ call.params[2].tuple
    /\ Len(ret.yielded) = 4

\* The i-th grid point takes, on some paired axis, a tuple whose length is not
\* the length of the axis's key tuple.
ArityMismatchAt(i) ==
    \E j \in 1..NAxes :
        /\ call.params[j].tuple
        /\ Len(ValueAt(i, j)) # Len(call.params[j].ns)

\* C8: a paired axis value whose length differs from the length of the key
\* tuple makes the expansion fail: no combo is yielded for such a grid point.
C8_ArityMismatchRaises ==
    IsGridCall => \A i \in 1..Len(ret.yielded) : ~ArityMismatchAt(i)

\* C9: a parameter name that two different axes flatten to makes the
\* expansion fail: no combo is yielded from such a spec.
C9_DuplicateKeyRaises ==
    (IsGridCall /\ \E j, m \in 1..NAxes : j # m /\ AxisNames(j) \cap AxisNames(m) # {}) =>
        Len(ret.yielded) = 0

(***************************************************************************)
(* dict_merge                                                              *)
(***************************************************************************)

\* A Python value as the caller writes it: a scalar, or a dict literal.
Scalar(n) == [dict |-> FALSE, v |-> n]
Dict(f) == [dict |-> TRUE, items |-> f]

\* A value as a dict on the heap holds it: a scalar, or the address of a dict.
Num(n) == [ref |-> FALSE, v |-> n]
Ref(a) == [ref |-> TRUE, v |-> a]

MaxDicts == 2

TopKeys == {"a"}
NestedKeys == {"x", "y"}
Scalars == {Scalar(1), Scalar(2)}
PartialFns(K, V) == UNION {[S -> V] : S \in SUBSET K}
LeafDicts == {Dict(f) : f \in PartialFns(NestedKeys, Scalars)}
DeepDicts == {Dict("x" :> Dict("x" :> Scalar(1))), Dict("x" :> Dict("y" :> Scalar(2)))}
TopDicts == {Dict(f) : f \in PartialFns(TopKeys, Scalars \cup LeafDicts \cup DeepDicts)}
KwDicts == {Dict(f) : f \in PartialFns(TopKeys, {Scalar(2), Dict("y" :> Scalar(2))})}
Depths == {-1, 0, 1}

\* The keys of a dict in the order `for k in d` visits them (one fixed order:
\* no result of dict_merge depends on it).
RECURSIVE KeyOrder(_)
KeyOrder(S) ==
    IF S = {} THEN <<>>
    ELSE LET k == CHOOSE x \in S : TRUE
         IN <<k>> \o KeyOrder(S \ {k})

EmptyDict == [k \in {} |-> Num(0)]

\* d[k] = v on the dict at address a.
SetItem(h, a, k, v) == [h EXCEPT ![a] = (k :> v) @@ h[a]]

\* The caller's literals built as objects: every dict literal is a new object.
RECURSIVE Alloc(_, _), AllocItems(_, _, _, _)
Alloc(h, t) ==
    IF ~t.dict THEN [heap |-> h, v |-> Num(t.v)]
    ELSE LET r == AllocItems(h, t.items, KeyOrder(DOMAIN t.items), EmptyDict)
         IN [heap |-> Append(r.heap, r.d), v |-> Ref(Len(r.heap) + 1)]
AllocItems(h, items, ks, d) ==
    IF ks = <<>> THEN [heap |-> h, d |-> d]
    ELSE LET r == Alloc(h, items[Head(ks)])
         IN AllocItems(r.heap, items, Tail(ks), (Head(ks) :> r.v) @@ d)

RECURSIVE AllocAll(_, _, _)
AllocAll(h, ts, vs) ==
    IF ts = <<>> THEN [heap |-> h, vs |-> vs]
    ELSE LET r == Alloc(h, Head(ts))
         IN AllocAll(r.heap, Tail(ts), Append(vs, r.v))

\* The value an object graph denotes (what == compares in Python).
RECURSIVE Deref(_, _)
Deref(h, v) ==
    IF ~v.ref THEN Scalar(v.v)
    ELSE Dict([k \in DOMAIN h[v.v] |-> Deref(h, h[v.v][k])])

RECURSIVE dict_merge(_, _, _, _), merge(_, _, _, _, _, _), Recurse(_, _, _, _, _)

\* A slip the recursion invites: merging into dicta[k] itself.
RecurseInPlace(h, a, b, depth, Mapping) ==
    LET r == merge(h, a.v, b.v, KeyOrder(DOMAIN h[b.v]), depth - 1, Mapping)
    IN [heap |-> r.heap, exc |-> r.exc, v |-> a]

\* dict_merge(dicta[k], dictb[k], depth=depth - 1); merge drops what it returns.
Recurse(h, a, b, depth, Mapping) ==
    dict_merge(h, <<a, b>>, depth - 1, Mapping)

\* merge(dicta, dictb, depth): the loop `for k in dictb` over the keys ks still
\* to visit.  Mapping says whether collections.Mapping exists: the alias was
\* removed in Python 3.10, and evaluating it then raises AttributeError.
merge(h, dicta, dictb, ks, depth, Mapping) ==
    IF ks = <<>> THEN [heap |-> h, exc |-> "none"]
    ELSE LET k == Head(ks)
             b == h[dictb][k]
             isdict == depth # 0 /\ k \in DOMAIN h[dicta] /\ h[dicta][k].ref
         IN IF isdict /\ ~Mapping THEN [heap |-> h, exc |-> "AttributeError"]
            ELSE IF isdict /\ b.ref
                 THEN LET r == Recurse(h, h[dicta][k], b, depth, Mapping)
                      IN IF r.exc # "none" THEN [heap |-> r.heap, exc |-> r.exc]
                         ELSE merge(r.heap, dicta, dictb, Tail(ks), depth, Mapping)
                 ELSE merge(SetItem(h, dicta, k, b), dicta, dictb, Tail(ks), depth, Mapping)

\* The loop `for d in ds + (kw,)` from the i-th operand on.
RECURSIVE MergeEach(_, _, _, _, _, _)
MergeEach(h, mdict, ds, i, depth, Mapping) ==
    IF i > Len(ds) THEN [heap |-> h, exc |-> "none", v |-> Ref(mdict)]
    ELSE LET r == merge(h, mdict, ds[i].v, KeyOrder(DOMAIN h[ds[i].v]), depth, Mapping)
         IN IF r.exc # "none" THEN [heap |-> r.heap, exc |-> r.exc, v |-> Ref(mdict)]
            ELSE MergeEach(r.heap, mdict, ds, i + 1, depth, Mapping)

\* dict_merge(*ds, depth): mdict = {} is a new object; ds ends with kw.
dict_merge(h, ds, depth, Mapping) ==
    MergeEach(Append(h, EmptyDict), Len(h) + 1, ds, 1, depth, Mapping)

\* A slip: the keyword overrides merged first instead of last.
OperandsKwFirst(ds, kw) == <<kw>> \o ds

\* ds + (kw,)
Operands(ds, kw) == ds \o <<kw>>

MergeCalls ==
    {[args |-> a, kwargs |-> k, depth |-> d, Mapping |-> m] :
        a \in SeqsUpTo(TopDicts, MaxDicts), k \in KwDicts, d \in Depths, m \in BOOLEAN}

InitMerge ==
    \E c \in MergeCalls :
        LET r == AllocAll(<<>>, c.args \o <<c.kwargs>>, <<>>) IN
        /\ pc = "start"
        /\ heap = r.heap
        /\ call = [fn |-> "dict_merge", args |-> c.args, kwargs |-> c.kwargs,
                   ds |-> SubSeq(r.vs, 1, Len(c.args)), kw |-> r.vs[Len(r.vs)],
                   depth |-> c.depth, Mapping |-> c.Mapping, heap |-> r.heap]
        /\ locals = NoLocals
        /\ ret = NoRet

CallDictMerge ==
    /\ pc = "start"
    /\ call.fn = "dict_merge"
    /\ LET r == dict_merge(heap, Operands(call.ds, call.kw), call.depth, call.Mapping) IN
        /\ heap' = r.heap
        /\ ret' = IF r.exc = "none" THEN [exc |-> "none", v |-> r.v] ELSE [exc |-> r.exc]
        /\ pc' = IF r.exc = "none" THEN "done" ELSE "raised"
    /\ UNCHANGED <<call, locals>>

NextMerge == CallDictMerge

SpecMerge == InitMerge /\ [][NextMerge]_vars

(***************************************************************************)
(* dict_merge: the properties                                              *)
(***************************************************************************)

HasReturned == pc = "done"
Result == Deref(heap, ret.v)

\* The merge the documentation describes, on values: the keys of both, a
\* nested mapping on both sides merged while the depth budget is not 0,
\* otherwise the later value.
RECURSIVE MergedAsDocumented(_, _, _)
MergedAsDocumented(a, b, depth) ==
    Dict([k \in DOMAIN a.items \cup DOMAIN b.items |->
            IF k \notin DOMAIN b.items THEN a.items[k]
            ELSE IF /\ k \in DOMAIN a.items
                    /\ depth # 0
                    /\ a.items[k].dict
                    /\ b.items[k].dict
                 THEN MergedAsDocumented(a.items[k], b.items[k], depth - 1)
                 ELSE b.items[k]])

RECURSIVE MergedLeftToRight(_, _, _)
MergedLeftToRight(acc, ts, depth) ==
    IF ts = <<>> THEN acc
    ELSE MergedLeftToRight(MergedAsDocumented(acc, Head(ts), depth), Tail(ts), depth)

\* C6: the mappings are merged left to right; nested mappings held by an
\* earlier and a later mapping at the same key are merged recursively while
\* the depth budget is not 0 (the result holds the keys of both), and the
\* later one replaces the earlier one when the budget is 0.  Stated for the
\* calls without overrides that return.
C6_RecursiveMerge ==
    (HasReturned /\ call.fn = "dict_merge" /\ DOMAIN call.kwargs.items = {}) =>
        Result = MergedLeftToRight(Dict(EmptyDict), call.args, call.depth)

\* The value the last positional mapping holding k holds at k is a mapping.
PositionalHoldsMappingAt(k) ==
    \E i \in 1..Len(call.args) :
        /\ k \in DOMAIN call.args[i].items
        /\ call.args[i].items[k].dict
        /\ \A j \in (i + 1)..Len(call.args) : k \notin DOMAIN call.args[j].items

C10_ArgumentsNotMutated ==
    call.fn = "dict_merge" =>
        /\ Len(heap) >= Len(call.heap)
        /\ \A a \in 1..Len(call.heap) : heap[a] = call.heap[a]

\* A call that returned after recursing into nested mappings held by two of
\* its arguments: the recursive call made a result mapping of its own.
C10_Witness ==
    /\ HasReturned /\ call.fn = "dict_merge"
    /\ Len(heap) > Len(call.heap) + 1
    /\ \E i, j \in 1..Len(call.args) : \E k \in TopKeys :
        /\ i < j
        /\ k \in DOMAIN call.args[i].items /\ call.args[i].items[k].dict
        /\ k \in DOMAIN call.args[j].items /\ call.args[j].items[k].dict

=============================================================================
